---- MODULE Spec2Model ----
(***************************************************************************)
(* Model of slack_backup.py: the incremental fetch / merge / persist path  *)
(* of one conversation (_append_new_messages, get_history, _write_json,    *)
(* _get_stored_messages, _get_max_timestamp), and the loops that drive it   *)
(* over the conversations (get_channels, get_private_channels,             *)
(* get_direct_messages, main).                                             *)
(*                                                                         *)
(* Timestamps are decimal strings "s.f"; a string is the pair <<s, f>> and *)
(* float() of it is the number of tenths s * 10 + f.  int() truncates a    *)
(* number of tenths to whole seconds.                                      *)
(***************************************************************************)
EXTENDS Integers, Sequences, FiniteSets, TLC

\* ---------------------------------------------------------------- bounds
\* Whole seconds a remote timestamp may carry: 1 .. MaxSec.
MaxSec == 2
\* Largest page_size a caller passes to get_history.
MaxPageSize == 3
\* Pages an arbitrary provider serves with has_more = true in one call.
MaxPages == 1
\* Records one conversation holds (stored + fetched) under an arbitrary provider.
MaxHeld == 2
\* Lines the temporary file's write buffer holds before it is flushed to disk.
BufferLines == 2
\* Records of a snapshot file that the program finds at the path, not written
\* by the runs the model follows.
MaxStored == 2
\* Conversations one run of main drives _append_new_messages over.
NumConversations == 3

\* Tenths in one unit: float() reads the decimal string "s.f" as s * 10 + f.
Tenths == 10

Fracs == {0, 5}
Seconds == 1..MaxSec
TsStrings == {<<s, f>> : s \in Seconds, f \in Fracs}
\* A record: only its 'ts' field is read by the program.
Messages == [ts : TsStrings]
\* The channel_info blobs a caller hands in.
Infos == {"info-a", "info-b"}

\* ------------------------------------------------------- pure functions
\* float(message['ts'])
Float(message) == message.ts[1] * Tenths + message.ts[2]

\* SORT_MESSAGES_BY_TIMESTAMP = lambda message: float(message['ts'])
SORT_MESSAGES_BY_TIMESTAMP(message) == Float(message)

\* int(start_at_timestamp): truncation to whole seconds, as a number of tenths.
int(x) == (x \div Tenths) * Tenths

Range(s) == {s[i] : i \in 1..Len(s)}

Max(S) == CHOOSE x \in S : \A y \in S : y <= x

\* Records float(message['ts']) fails on.  NoKey stands for a record without
\* a 'ts' key; NotANumber is the string "0.0.0", which float() does not parse.
NoKey == <<>>
NotANumber == <<0, 0, 0>>
Malformed == [ts : {NoKey, NotANumber}]

\* What float(message['ts']) raises on a record.
FloatRaises(message) ==
    IF message.ts = NoKey THEN "KeyError"
    ELSE IF Len(message.ts) # 2 THEN "ValueError"
    ELSE "none"

\* Lines 45-47: the list comprehension raises what float() raises on the
\* first record it fails on.
FirstRaised(msgs) ==
    IF \A i \in 1..Len(msgs) : FloatRaises(msgs[i]) = "none"
    THEN "none"
    ELSE FloatRaises(msgs[CHOOSE i \in 1..Len(msgs) :
                              /\ FloatRaises(msgs[i]) # "none"
                              /\ \A j \in 1..(i - 1) : FloatRaises(msgs[j]) = "none"])

\* _get_max_timestamp with the last record's timestamp for the maximum.
_get_last_timestamp(msgs) ==
    IF msgs = <<>> \/ FirstRaised(msgs) = "ValueError"
    THEN 0
    ELSE Float(msgs[Len(msgs)])

\* _get_max_timestamp, where it returns (FirstRaised(msgs) # "KeyError"):
\* `except ValueError: return 0.` catches the ValueError of max() of an empty
\* list and the ValueError of float() alike.
_get_max_timestamp(msgs) ==
    IF msgs = <<>> \/ FirstRaised(msgs) = "ValueError"
    THEN 0
    ELSE Max({Float(msgs[i]) : i \in 1..Len(msgs)})

\* list.sort(key=...): stable, ascending by key.  The element at index i
\* lands behind the elements of smaller key and the earlier ones of equal key.
SortedIndex(s, i) ==
    1 + Cardinality({j \in 1..Len(s) :
            \/ SORT_MESSAGES_BY_TIMESTAMP(s[j]) < SORT_MESSAGES_BY_TIMESTAMP(s[i])
            \/ /\ SORT_MESSAGES_BY_TIMESTAMP(s[j]) = SORT_MESSAGES_BY_TIMESTAMP(s[i])
               /\ j < i})
SortByKey(s) ==
    [p \in 1..Len(s) |-> s[CHOOSE i \in 1..Len(s) : SortedIndex(s, i) = p]]

IsSorted(s) == \A i \in 1..(Len(s) - 1) : Float(s[i]) <= Float(s[i + 1])

\* ------------------------------------------------------------ the files
\* A file is a sequence of lines; json.dump(info, indent=4, sort_keys=True)
\* writes the channel_info line, one line per message, and the closing line.
NoFile == [exists |-> FALSE, data |-> <<>>]
EmptyFile == [exists |-> TRUE, data |-> <<>>]

JsonDump(doc) ==
    <<[kind |-> "open", channel_info |-> doc.channel_info, ts |-> <<>>]>>
    \o [i \in 1..Len(doc.messages) |->
          [kind |-> "message", channel_info |-> "", ts |-> doc.messages[i].ts]]
    \o <<[kind |-> "close", channel_info |-> "", ts |-> <<>>]>>

\* A json.load that accepts a document cut short after its opening line.
ParsesLeniently(data) ==
    /\ Len(data) >= 1
    /\ data[1].kind = "open"

\* json.load succeeds on a complete document only.
Parses(data) ==
    /\ Len(data) >= 2
    /\ data[1].kind = "open"
    /\ data[Len(data)].kind = "close"

JsonLoad(data) ==
    [channel_info |-> data[1].channel_info,
     messages |-> [i \in 1..(Len(data) - 2) |-> [ts |-> data[i + 1].ts]]]

\* The message lines of a file, complete or not.
MessageLines(data) ==
    LET sel == SelectSeq(data, LAMBDA l : l.kind = "message")
    IN  [i \in 1..Len(sel) |-> [ts |-> sel[i].ts]]

\* _get_stored_messages(path), for a path that is absent or parses.
_get_stored_messages(file) ==
    IF ~file.exists THEN <<>> ELSE JsonLoad(file.data).messages

\* ---------------------------------------------------- history provider
\* The records of a history (pairwise distinct timestamps) in ascending
\* timestamp order.
Ascending(S) ==
    [p \in 1..Cardinality(S) |->
        CHOOSE m \in S : Cardinality({x \in S : Float(x) < Float(m)}) = p - 1]

\* pageable_object.history(channel, oldest, count).body of a provider serving
\* a finite history: the first `count` records at or after `oldest`, and
\* has_more while more such records remain beyond the page.
HistoryPage(hist, oldest, count) ==
    LET eligible == Ascending({m \in hist : Float(m) >= oldest})
    IN  [messages |-> SubSeq(eligible, 1, IF Len(eligible) < count
                                           THEN Len(eligible) ELSE count),
         has_more |-> Len(eligible) > count]

\* Every page of at most n records.
PagesUpTo(n) == UNION {[1..k -> Messages] : k \in 0..n}

\* ----------------------------------------------------------------- state
VARIABLES
    remote,              \* the conversation's records on the remote side
    fs,                  \* dir: the directory exists; target, tmp: the files;
                         \* litter: an ended call left its temporary file behind
    pc,                  \* where _append_new_messages stands
    info,                \* _append_new_messages' info argument (channel_info)
    page_size,           \* get_history's page_size
    messages,            \* _append_new_messages' messages
    new_messages,        \* get_history's messages, then the caller's new_messages
    start_at_timestamp,  \* get_history's start_at_timestamp
    response,            \* get_history's response
    out_file,            \* _write_json's out_file: its name and unflushed buffer
    outcome,             \* how the last call ended
    since,               \* the start_at_timestamp get_history was called with
    missed,              \* records of the call's pages newer than since that
                         \* the result so far does not hold
    fs0,                 \* fs when the current (or else the last) call began
    pages,               \* pages returned during the call
    settled,             \* a call ended normally and the remote has not changed since
    readerSaw,           \* what a concurrent reader of the path last read
    channel,             \* the conversation the loop of a run stands at; 0: no run
    synced,              \* conversations whose call returned in the run
    failed,              \* conversations whose call raised in the run
    snapshots            \* each conversation's snapshot file

\* The variables of one _append_new_messages call.
call == <<remote, fs, pc, info, page_size, messages, new_messages,
          start_at_timestamp, response, out_file, outcome, since, missed, fs0,
          pages, settled, readerSaw>>

\* The variables of a run over the conversations.
collection == <<channel, synced, failed, snapshots>>

vars == <<call, collection>>

\* The conversations in the order main reaches them: lines 220-227, and
\* within each listing the order of its loop.
Conversations == 1..NumConversations

\* No run over the conversations has begun.
NoRun ==
    /\ channel = 0
    /\ synced = {}
    /\ failed = {}
    /\ snapshots = [c \in Conversations |-> "absent"]

NoResponse == [messages |-> <<>>, has_more |-> FALSE]
NoOutFile == [name |-> "closed", buffer |-> <<>>]
NotRead == [exists |-> FALSE, data |-> <<[kind |-> "unread", channel_info |-> "", ts |-> <<>>]>>]

Init ==
    /\ remote = {}
    /\ fs = [dir |-> FALSE, target |-> NoFile, tmp |-> NoFile, litter |-> FALSE]
    /\ pc = "idle"
    /\ info = ""
    /\ page_size = 0
    /\ messages = <<>>
    /\ new_messages = <<>>
    /\ start_at_timestamp = 0
    /\ response = NoResponse
    /\ out_file = NoOutFile
    /\ outcome = "none"
    /\ since = 0
    /\ missed = {}
    /\ fs0 = fs
    /\ pages = 0
    /\ settled = FALSE
    /\ readerSaw = NotRead
    /\ NoRun

\* The call ends (a return or a raised error): its locals are gone.
Ends(how) ==
    /\ pc' = "idle"
    /\ outcome' = how
    /\ info' = ""
    /\ page_size' = 0
    /\ messages' = <<>>
    /\ new_messages' = <<>>
    /\ start_at_timestamp' = 0
    /\ response' = NoResponse
    /\ out_file' = NoOutFile
    /\ since' = 0
    /\ missed' = {}
    /\ fs0' = fs0
    /\ pages' = 0
    /\ readerSaw' = NotRead

\* ------------------------------------------------ _append_new_messages
\* Begin that creates the directory before anything is fetched.
BeginMakingDirectory ==
    /\ pc = "idle"
    /\ ~(fs.target.exists /\ ~Parses(fs.target.data))
    /\ \E n \in 1..MaxPageSize : page_size' = n
    /\ messages' = _get_stored_messages(fs.target)
    /\ start_at_timestamp' = _get_max_timestamp(messages')
    /\ since' = start_at_timestamp'
    /\ new_messages' = <<>>
    /\ pc' = "request"
    /\ fs0' = fs
    /\ fs' = [fs EXCEPT !.dir = TRUE]
    /\ outcome' = "running"
    /\ UNCHANGED <<collection, remote, info, response, out_file, missed, pages, settled,
                   readerSaw>>

\* Lines 96-99 and 59: load the stored messages, compute the watermark and
\* enter get_history.  json.load raises on a file that does not parse, and
\* line 98 raises the KeyError of a stored record without a 'ts' key.
Begin ==
    /\ pc = "idle"
    /\ \E n \in 1..MaxPageSize :
         IF fs.target.exists /\ ~Parses(fs.target.data)
         THEN /\ outcome' = "CorruptSnapshot"
              /\ fs0' = fs
              /\ UNCHANGED <<collection, remote, fs, pc, info, page_size, messages,
                             new_messages, start_at_timestamp, response,
                             out_file, since, missed, pages, settled,
                             readerSaw>>
         ELSE IF FirstRaised(_get_stored_messages(fs.target)) = "KeyError"
         THEN /\ outcome' = "MalformedRecord"
              /\ fs0' = fs
              /\ UNCHANGED <<collection, remote, fs, pc, info, page_size, messages,
                             new_messages, start_at_timestamp, response,
                             out_file, since, missed, pages, settled,
                             readerSaw>>
         ELSE /\ messages' = _get_stored_messages(fs.target)
              /\ start_at_timestamp' = _get_max_timestamp(messages')
              /\ since' = start_at_timestamp'
              /\ new_messages' = <<>>
              /\ page_size' = n
              /\ pc' = "request"
              /\ fs0' = fs
              /\ outcome' = "running"
              /\ UNCHANGED <<collection, remote, fs, info, response, out_file, missed,
                             pages, settled, readerSaw>>

\* ---------------------------------------------------------- get_history
\* Oldest taken from the bound the call began with, not from the cursor.
OldestNeverAdvanced(cursor) == int(since)

\* Oldest rounded up to the next whole second.
OldestRoundedUp(cursor) == int(cursor) + Tenths

\* Line 64: oldest=int(start_at_timestamp)
Oldest(cursor) == int(cursor)

\* Lines 62-66: one page request, answered by a provider serving `remote`.
HistoryRequest ==
    /\ pc = "request"
    /\ response' = HistoryPage(remote, Oldest(start_at_timestamp), page_size)
    /\ pc' = "response"
    /\ UNCHANGED <<collection, remote, fs, info, page_size, messages, new_messages,
                   start_at_timestamp, out_file, outcome, since, missed, fs0,
                   pages, settled, readerSaw>>

\* Lines 62-66: one page request, answered by a provider that may return any
\* page of at most page_size records, in any order, and any has_more.
ArbitraryRequest ==
    /\ pc = "request"
    /\ \E page \in PagesUpTo(page_size), more \in BOOLEAN :
         /\ more => pages < MaxPages
         /\ Len(messages) + Len(new_messages) + Len(page) <= MaxHeld
         /\ response' = [messages |-> page, has_more |-> more]
    /\ pages' = pages + 1
    /\ pc' = "response"
    /\ UNCHANGED <<collection, remote, fs, info, page_size, messages, new_messages,
                   start_at_timestamp, out_file, outcome, since, missed, fs0,
                   settled, readerSaw>>

\* Lines 62-66: the provider call raises; nothing catches it.
ProviderRaises ==
    /\ pc = "request"
    /\ UNCHANGED <<collection, remote, fs, settled>>
    /\ Ends("ProviderError")

\* Kept with the comparison made inclusive.
KeptInclusive(page, cursor) ==
    SelectSeq(page, LAMBDA message : Float(message) >= cursor)

\* Lines 68-73: the records of the page that are kept.
Kept(page, cursor) == SelectSeq(page, LAMBDA message : Float(message) > cursor)

\* Line 77: the next start_at_timestamp.
NextCursor(cursor, page) == _get_max_timestamp(page)

\* Line 80: messages.sort(key=SORT_MESSAGES_BY_TIMESTAMP)
Returned(msgs) == SortByKey(msgs)

\* Lines 68-81: extend the result with the page; on has_more go round again,
\* else sort and return to _append_new_messages.
ProcessPage ==
    /\ pc = "response"
    /\ IF response.has_more
       THEN /\ new_messages' =
                  new_messages \o Kept(response.messages, start_at_timestamp)
            /\ start_at_timestamp' =
                  NextCursor(start_at_timestamp, response.messages)
            /\ pc' = "request"
       ELSE /\ new_messages' = Returned(
                  new_messages \o Kept(response.messages, start_at_timestamp))
            /\ pc' = "returned"
            /\ UNCHANGED start_at_timestamp
    /\ missed' = (missed \cup {m \in Range(response.messages) : Float(m) > since})
                  \ Range(new_messages')
    /\ response' = NoResponse
    /\ UNCHANGED <<collection, remote, fs, info, page_size, messages, out_file, outcome,
                   since, fs0, pages, settled, readerSaw>>

\* NothingNew with the test inverted.
NothingNewInverted(new) == new # <<>>

\* Line 100: if not new_messages
NothingNew(new) == new = <<>>

\* Lines 100-101: nothing fetched, return without writing.
ReturnUnchanged ==
    /\ pc = "returned"
    /\ NothingNew(new_messages)
    /\ settled' = TRUE
    /\ UNCHANGED <<collection, remote, fs>>
    /\ Ends("unchanged")

\* Merged without the sort.
MergedUnsorted(old, new) == old \o new

\* Lines 103-104: messages += new_messages; messages.sort(...)
Merged(old, new) == SortByKey(old \o new)

\* Lines 103-105: merge, sort, and enter _write_json.  get_history's frame
\* (its start_at_timestamp and page_size, and what is recorded about its
\* pages) is gone, and new_messages is not read again.  The caller's info is
\* read here for the first time (line 105), so it is drawn here.
Merge ==
    /\ pc = "returned"
    /\ ~NothingNew(new_messages)
    /\ messages' = Merged(messages, new_messages)
    /\ \E i \in Infos : info' = i
    /\ pc' = "makedirs"
    /\ new_messages' = <<>>
    /\ start_at_timestamp' = 0
    /\ page_size' = 0
    /\ since' = 0
    /\ missed' = {}
    /\ pages' = 0
    /\ UNCHANGED <<collection, remote, fs, response, out_file, outcome, fs0, settled,
                   readerSaw>>

\* ------------------------------------------------------------ _write_json
\* The call ends with an error raised inside _write_json.  A temporary file
\* that was created stays in the directory: delete=False, and nothing
\* removes it.
Raises(how) ==
    /\ fs' = IF fs.tmp.exists
             THEN [fs EXCEPT !.tmp = NoFile, !.litter = TRUE]
             ELSE fs
    /\ settled' = FALSE
    /\ UNCHANGED <<collection, remote>>
    /\ Ends(how)

\* MakeDirs that leaves an absent directory absent.
MakeDirsSkipped ==
    /\ pc = "makedirs"
    /\ pc' = "open"
    /\ UNCHANGED <<collection, remote, fs, info, page_size, messages,
                   new_messages, start_at_timestamp, response, out_file,
                   outcome, since, missed, fs0, pages, settled, readerSaw>>

\* Lines 85-87: create the directory if it is absent.
MakeDirs ==
    /\ pc = "makedirs"
    /\ fs' = [fs EXCEPT !.dir = TRUE]
    /\ pc' = "open"
    /\ UNCHANGED <<collection, remote, info, page_size, messages, new_messages,
                   start_at_timestamp, response, out_file, outcome, since,
                   missed, fs0, pages, settled, readerSaw>>

\* Line 87: os.makedirs raises.
MakeDirsFails ==
    /\ pc = "makedirs"
    /\ ~fs.dir
    /\ Raises("PersistenceError")

\* Lines 89-90: NamedTemporaryFile(dir=directory, mode='w', delete=False)
OpenTemp ==
    /\ pc = "open"
    /\ fs' = [fs EXCEPT !.tmp = EmptyFile]
    /\ out_file' = [name |-> "tmp", buffer |-> <<>>]
    /\ pc' = "dump"
    /\ UNCHANGED <<collection, remote, info, page_size, messages, new_messages,
                   start_at_timestamp, response, outcome, since, missed, fs0,
                   pages, settled, readerSaw>>

\* Lines 89-90: the temporary file cannot be created.
OpenTempFails ==
    /\ pc = "open"
    /\ Raises("PersistenceError")

\* What of a text of n lines has reached the disk while it is written: the
\* buffer is handed to the file each time it fills.
Flushed(n) == (n \div BufferLines) * BufferLines

\* Line 91: json.dump(info, out_file, indent=4, sort_keys=True)
Dump ==
    /\ pc = "dump"
    /\ LET text == JsonDump([channel_info |-> info, messages |-> messages])
           n == Flushed(Len(text))
       IN  /\ fs' = [fs EXCEPT !.tmp.data = SubSeq(text, 1, n)]
           /\ out_file' = [out_file EXCEPT !.buffer = SubSeq(text, n + 1, Len(text))]
    /\ pc' = "rename"
    /\ UNCHANGED <<collection, remote, info, page_size, messages, new_messages,
                   start_at_timestamp, response, outcome, since, missed, fs0,
                   pages, settled, readerSaw>>

\* Line 91: json.dump raises part-way; the with block closes the file.
DumpFails ==
    /\ pc = "dump"
    /\ Raises("PersistenceError")

\* Line 92: os.rename(out_file.name, path), inside the with block: the file
\* is still open and its buffer unflushed.
Rename ==
    /\ pc = "rename"
    /\ fs' = [fs EXCEPT !.target = fs.tmp, !.tmp = NoFile]
    /\ out_file' = [out_file EXCEPT !.name = "target"]
    /\ pc' = "close"
    /\ UNCHANGED <<collection, remote, info, page_size, messages, new_messages,
                   start_at_timestamp, response, outcome, since, missed, fs0,
                   pages, settled, readerSaw>>

\* Line 92: os.rename raises; the with block closes the file.
RenameFails ==
    /\ pc = "rename"
    /\ Raises("PersistenceError")

\* Lines 89-92, leaving the with block: the buffer is flushed to the open
\* file, which by now is the target path, and the file is closed.
Close ==
    /\ pc = "close"
    /\ fs' = [fs EXCEPT !.target.data = fs.target.data \o out_file.buffer]
    /\ settled' = TRUE
    /\ UNCHANGED <<collection, remote>>
    /\ Ends("updated")

\* Leaving the with block: the flush of the buffer fails (disk full, I/O
\* error) and close raises.
CloseFails ==
    /\ pc = "close"
    /\ Raises("PersistenceError")

\* ---------------------------------------------------------- environment
WritePcs == {"makedirs", "open", "dump", "rename", "close"}

\* Another process opens the path and reads it while _write_json runs.
ReaderReads ==
    /\ pc \in WritePcs
    /\ readerSaw' = fs.target
    /\ UNCHANGED <<collection, remote, fs, pc, info, page_size, messages, new_messages,
                   start_at_timestamp, response, out_file, outcome, since,
                   missed, fs0, pages, settled>>

\* Between two runs a record is posted to the conversation.
RemoteGrows ==
    /\ pc = "idle"
    /\ \E m \in Messages \ remote : remote' = remote \cup {m}
    /\ settled' = FALSE
    /\ UNCHANGED <<collection, fs, pc, info, page_size, messages,
                   new_messages, start_at_timestamp, response, out_file,
                   outcome, since, missed, fs0, pages, readerSaw>>

\* Between two runs a record newer than every record of the conversation is
\* posted to it.
RemoteGrowsNewer ==
    /\ pc = "idle"
    /\ \E m \in Messages :
         /\ \A x \in remote : Float(x) < Float(m)
         /\ remote' = remote \cup {m}
    /\ settled' = FALSE
    /\ UNCHANGED <<collection, fs, pc, info, page_size, messages,
                   new_messages, start_at_timestamp, response, out_file,
                   outcome, since, missed, fs0, pages, readerSaw>>

\* --------------------------------------------------------- specifications
Sync ==
    \/ Begin
    \/ ProviderRaises
    \/ ProcessPage
    \/ ReturnUnchanged
    \/ Merge
    \/ MakeDirs
    \/ MakeDirsFails
    \/ OpenTemp
    \/ OpenTempFails
    \/ Dump
    \/ DumpFails
    \/ Rename
    \/ RenameFails
    \/ Close
    \/ CloseFails
    \/ ReaderReads

\* Runs against a provider that serves the remote history.
Next == Sync \/ HistoryRequest \/ RemoteGrows

Spec == Init /\ [][Next]_vars

\* Runs against a provider that serves a remote history which grows only by
\* records newer than all it holds.
NextGrowing == Sync \/ HistoryRequest \/ RemoteGrowsNewer

SpecGrowing == Init /\ [][NextGrowing]_vars

\* get_history alone, called with any start_at_timestamp and page_size
\* against a provider serving any history: lines 52-59.
InitFetch ==
    /\ remote \in SUBSET Messages
    /\ since \in {0} \cup {Float(m) : m \in Messages}
    /\ start_at_timestamp = since
    /\ page_size \in 1..MaxPageSize
    /\ pc = "request"
    /\ outcome = "running"
    /\ fs = [dir |-> FALSE, target |-> NoFile, tmp |-> NoFile, litter |-> FALSE]
    /\ info = ""
    /\ messages = <<>>
    /\ new_messages = <<>>
    /\ response = NoResponse
    /\ out_file = NoOutFile
    /\ missed = {}
    /\ fs0 = fs
    /\ pages = 0
    /\ settled = FALSE
    /\ readerSaw = NotRead
    /\ NoRun

NextFetch == HistoryRequest \/ ProviderRaises \/ ProcessPage

\* The program keeps running: a provider call returns or raises, and a
\* returned page is processed.
FairFetch ==
    /\ InitFetch
    /\ [][NextFetch]_vars
    /\ WF_vars(HistoryRequest \/ ProviderRaises)
    /\ WF_vars(ProcessPage)

\* Snapshot files found at the path: any records, well-formed or not, in any
\* order (a file written by hand or by another program).
StoredFiles ==
    {[exists |-> TRUE,
      data |-> JsonDump([channel_info |-> "info-a", messages |-> msgs])] :
        msgs \in UNION {[1..k -> Messages \cup Malformed] : k \in 0..MaxStored}}

\* _append_new_messages called on such a file, for a conversation whose
\* remote history holds nothing.
InitStored ==
    /\ remote = {}
    /\ \E file \in StoredFiles :
         fs = [dir |-> TRUE, target |-> file, tmp |-> NoFile, litter |-> FALSE]
    /\ pc = "idle"
    /\ info = ""
    /\ page_size = 0
    /\ messages = <<>>
    /\ new_messages = <<>>
    /\ start_at_timestamp = 0
    /\ response = NoResponse
    /\ out_file = NoOutFile
    /\ outcome = "none"
    /\ since = 0
    /\ missed = {}
    /\ fs0 = fs
    /\ pages = 0
    /\ settled = FALSE
    /\ readerSaw = NotRead
    /\ NoRun

NextStored == Begin \/ HistoryRequest \/ ProcessPage \/ ReturnUnchanged

SpecStored == InitStored /\ [][NextStored]_vars

\* ------------------------------------------------------- the collections
\* Lines 112-115, 139-143, 161-164: a run begins; its loops start at the
\* first conversation.
GetChannels ==
    /\ channel = 0
    /\ channel' = 1
    /\ synced' = {}
    /\ failed' = {}
    /\ UNCHANGED <<snapshots, call>>

\* Lines 124-126, 153, 171: the conversation's _append_new_messages returns,
\* having left the snapshot as it was ("unchanged") or replaced it
\* ("updated"); the loop goes on to the next conversation.
AppendReturns ==
    /\ channel \in Conversations
    /\ snapshots[channel] # "cut short"
    /\ \E after \in {snapshots[channel], "complete"} :
         snapshots' = [snapshots EXCEPT ![channel] = after]
    /\ synced' = synced \cup {channel}
    /\ channel' = IF channel = NumConversations THEN 0 ELSE channel + 1
    /\ UNCHANGED <<failed, call>>

\* Lines 124-126, 153, 171: the conversation's _append_new_messages raises
\* (CorruptSnapshot on a file cut short; else the provider's error, or a
\* failed write, which may leave the file cut short).  No loop and nothing in
\* main catches it: the run ends there.
AppendRaises ==
    /\ channel \in Conversations
    /\ \E after \in {snapshots[channel], "cut short"} :
         snapshots' = [snapshots EXCEPT ![channel] = after]
    /\ failed' = failed \cup {channel}
    /\ channel' = 0
    /\ UNCHANGED <<synced, call>>

NextCollection == GetChannels \/ AppendReturns \/ AppendRaises

\* Runs of main over the conversations.
SpecCollection == Init /\ [][NextCollection]_vars

\* Runs against a provider that may return any pages.
NextAny == Sync \/ ArbitraryRequest

SpecAny == Init /\ [][NextAny]_vars

\* ----------------------------------------------------------------- claims
NoDuplicates(s) == \A i, j \in 1..Len(s) : i # j => s[i] # s[j]

\* The snapshot _write_json is writing.
NewSnapshot ==
    [exists |-> TRUE,
     data |-> JsonDump([channel_info |-> info, messages |-> messages])]

\* C1 -- boundary exclusivity: whatever pages the provider returns, every
\* record get_history returns has a timestamp strictly greater than the
\* since it was called with.
C1_BoundaryExclusivity ==
    pc = "returned" =>
        \A i \in 1..Len(new_messages) : Float(new_messages[i]) > since

\* C2 -- fetch completeness: whatever the order of the pages, every record
\* that appeared in a page of the call and is newer than since is in the
\* result get_history returns.
C2_FetchCompleteness ==
    pc = "returned" => missed = {}

\* C3 -- atomic visibility: a reader of the path while _write_json runs sees
\* the complete previous snapshot (or no file, when there was none) or the
\* complete new snapshot.
C3_AtomicVisibility ==
    readerSaw \in {NotRead, fs0.target, NewSnapshot}

\* C4 -- failure atomicity: when _write_json fails, at whatever step, the
\* target path holds what it held before the call.
C4_FailureAtomicity ==
    outcome = "PersistenceError" => fs.target = fs0.target

\* The messages of the snapshot a file holds (none when there is no file).
Stored(file) == IF file.exists /\ Parses(file.data)
                THEN JsonLoad(file.data).messages ELSE <<>>

\* C5 -- idempotence: once a run has ended normally and while the remote
\* history stays as it was, no step changes the filesystem (the snapshot
\* stays byte-identical) and a further get_history returns nothing.
C5_Idempotence ==
    [][settled => /\ fs' = fs
                  /\ (pc' = "returned" => new_messages' = <<>>)]_vars

\* A second run in a row has fetched and found nothing new on top of a
\* snapshot of several records that an earlier run wrote.
C5_Witness ==
    /\ settled
    /\ pc = "returned"
    /\ new_messages = <<>>
    /\ Len(Stored(fs.target)) >= 2
    /\ Cardinality(remote) >= 2

\* C6 -- no-op on empty fetch: when get_history has returned an empty
\* sequence, the call's next step is its return, and the filesystem is what
\* it was when the call began.
C6_NoOpOnEmptyFetch ==
    [][(pc = "returned" /\ new_messages = <<>>) =>
           (pc' = "idle" /\ outcome' = "unchanged" /\ fs' = fs0)]_vars

\* A call returned unchanged although a snapshot exists and the remote holds
\* records.
C6_Witness ==
    /\ pc = "idle"
    /\ outcome = "unchanged"
    /\ fs.target.exists
    /\ remote # {}

\* C7 -- no duplication across runs: against a remote history of pairwise
\* distinct timestamps that grows between runs, no record is in the
\* persisted messages twice.
C7_NoDuplication ==
    NoDuplicates(MessageLines(fs.target.data))

\* A run has merged new records into a snapshot an earlier run wrote.
C7_Witness ==
    /\ pc = "idle"
    /\ outcome = "updated"
    /\ Len(Stored(fs0.target)) >= 1
    /\ Len(Stored(fs.target)) > Len(Stored(fs0.target))

\* C8 -- ordering: the messages of every snapshot file are sorted ascending
\* by timestamp, and so is every sequence get_history returns, whatever the
\* provider returned.
C8_Ordering ==
    /\ IsSorted(MessageLines(fs.target.data))
    /\ pc = "returned" => IsSorted(new_messages)

\* A run has written a snapshot in which a fetched record precedes a record
\* that was stored before.
C8_Witness ==
    /\ pc = "idle"
    /\ outcome = "updated"
    /\ Len(Stored(fs0.target)) >= 1
    /\ Len(Stored(fs.target)) > Len(Stored(fs0.target))
    /\ SubSeq(Stored(fs.target), 1, Len(Stored(fs0.target))) # Stored(fs0.target)

\* The most records of a history whose timestamps fall in one whole second.
Crowding(hist) ==
    Max({Cardinality({m \in hist : m.ts[1] = sec}) : sec \in Seconds})

Fetching == pc \in {"request", "response"}

C10_ProviderFailureLeavesDisk ==
    /\ pc \in {"request", "response", "returned"} => fs = fs0
    /\ outcome = "ProviderError" => (pc = "idle" /\ fs = fs0)

\* The provider raised on a later page of a run over an existing snapshot.
C10_Witness ==
    /\ outcome = "ProviderError"
    /\ fs.target.exists
    /\ Cardinality(remote) > Len(Stored(fs.target))

\* A file that exists and ends before its closing line: what a failed write
\* leaves at the path.
CutShort(file) ==
    /\ file.exists
    /\ \/ file.data = <<>>
       \/ file.data[Len(file.data)].kind # "close"

\* C11 -- corrupt snapshot is surfaced: while the path holds a file that does
\* not parse, a call of _append_new_messages ends at once with the error of
\* _get_stored_messages; it makes no provider call (it never leaves "idle")
\* and no write (the filesystem stays as it is).
C11_CorruptSnapshotSurfaced ==
    [][(pc = "idle" /\ CutShort(fs.target)) =>
           /\ pc' = "idle"
           /\ fs' = fs
           /\ (remote' = remote => outcome' = "CorruptSnapshot")]_vars

\* A call has ended with CorruptSnapshot on a file cut short, while the remote
\* holds records it could have fetched.
C11_Witness ==
    /\ pc = "idle"
    /\ outcome = "CorruptSnapshot"
    /\ CutShort(fs.target)
    /\ fs = fs0
    /\ remote # {}

\* C12 -- a malformed record is an error, never a default: a call that got as
\* far as the fetch, or returned, found no stored record that float() fails
\* on; with such a record it ended with an error while computing the
\* watermark.
C12_MalformedRecordIsAnError ==
    (pc # "idle" \/ outcome = "unchanged") =>
        \A i \in 1..Len(Stored(fs0.target)) :
            FloatRaises(Stored(fs0.target)[i]) = "none"

\* C13 -- watermark value: the since that get_history is called with is
\* computed from the messages just loaded from the snapshot; for well-formed
\* records it is 0 when there are none, and else the timestamp of one of them
\* that none of them exceeds.
C13_WatermarkValue ==
    (/\ pc \in {"request", "response", "returned"}
     /\ \A i \in 1..Len(messages) : FloatRaises(messages[i]) = "none") =>
        /\ messages = Stored(fs0.target)
        /\ messages = <<>> => since = 0
        /\ messages # <<>> =>
              /\ \E i \in 1..Len(messages) : Float(messages[i]) = since
              /\ \A i \in 1..Len(messages) : Float(messages[i]) <= since

\* The watermark was taken from stored records that are not in ascending
\* order: the newest comes first.
C13_Witness ==
    /\ pc = "request"
    /\ Len(messages) >= 2
    /\ \A i \in 1..Len(messages) : FloatRaises(messages[i]) = "none"
    /\ Float(messages[1]) > Float(messages[Len(messages)])
    /\ since = Float(messages[1])

\* C14 -- temporary file discipline: once a call has ended, however
\* _write_json was left, no temporary file it created is in the directory.
C14_TemporaryFileDiscipline ==
    pc = "idle" => (~fs.tmp.exists /\ ~fs.litter)

\* C15 -- per-conversation isolation: when a run is over and one
\* conversation's sync failed in it, every conversation after that one in the
\* collection was synced (or failed in its own turn).
C15_PerConversationIsolation ==
    (channel = 0 /\ failed # {}) =>
        \A c \in Conversations :
            (\E f \in failed : f < c) => c \in synced \cup failed

\* How often a record occurs in a sequence.
Occurrences(s, m) == Cardinality({i \in 1..Len(s) : s[i] = m})

\* Two sequences hold the same records, each as often.
SameRecords(a, b) ==
    \A m \in Range(a) \cup Range(b) : Occurrences(a, m) = Occurrences(b, m)

\* C16 -- empty-store bootstrap: a call that finds no file at the path loads
\* no messages and fetches from watermark 0; when the fetch returned
\* something, what it writes is exactly the fetch result in ascending order,
\* and when it has returned the directory exists and the snapshot at the path
\* holds those messages.
C16_EmptyStoreBootstrap ==
    [][/\ (pc = "idle" /\ ~fs.target.exists /\ pc' = "request") =>
              (messages' = <<>> /\ since' = 0)
       /\ (pc = "returned" /\ ~fs0.target.exists /\ pc' = "makedirs") =>
              (IsSorted(messages') /\ SameRecords(messages', new_messages))
       /\ (pc \in WritePcs /\ pc' \in WritePcs) => messages' = messages
       /\ (pc = "close" /\ ~fs0.target.exists /\ outcome' = "updated") =>
              /\ fs'.dir
              /\ Parses(fs'.target.data)
              /\ JsonLoad(fs'.target.data).messages = messages]_vars

\* A first run created the directory and wrote a snapshot of several records.
C16_Witness ==
    /\ pc = "idle"
    /\ outcome = "updated"
    /\ ~fs0.target.exists
    /\ ~fs0.dir
    /\ fs.dir
    /\ Len(Stored(fs.target)) >= 2

\* C17 -- cursor monotonicity: at every page transition of get_history (a
\* page came back with has_more and the next request is made) the cursor
\* start_at_timestamp is strictly greater than it was.
C17_CursorMonotonicity ==
    [][(pc = "response" /\ pc' = "request") =>
           start_at_timestamp' > start_at_timestamp]_vars

\* C18 -- the oldest bound equals the cursor: whenever get_history is about
\* to request a page, the oldest it hands to the provider is the cursor
\* itself, fractional part included.
C18_OldestEqualsCursor ==
    pc = "request" => Oldest(start_at_timestamp) = start_at_timestamp

\* The persisted collection `after` holds every record of `before` at least
\* as often, and its watermark is not lower.
NeverShrinks(before, after) ==
    /\ \A m \in Range(before) : Occurrences(after, m) >= Occurrences(before, m)
    /\ _get_max_timestamp(after) >= _get_max_timestamp(before)

\* C19 -- merge preserves history, across any sequence of syncs: after every
\* call, however it ended, the persisted messages hold every record they
\* held when the call began, and the watermark computed from them is not
\* lower.
C19_MergePreservesHistory ==
    pc = "idle" => NeverShrinks(Stored(fs0.target), Stored(fs.target))

\* The part of C19 about calls that return: the merge adds the fetch result
\* to the loaded messages, record by record, the snapshot written holds the
\* merged messages, and the persisted messages have not shrunk.
SuccessfulMergePreservesHistory ==
    [][/\ (pc = "idle" /\ pc' = "request") => messages' = Stored(fs.target)
       /\ (pc = "returned" /\ pc' = "makedirs") =>
              /\ Len(messages') = Len(messages) + Len(new_messages)
              /\ \A m \in Range(messages') :
                    Occurrences(messages', m) =
                        Occurrences(messages, m) + Occurrences(new_messages, m)
       /\ (pc = "close" /\ outcome' = "updated") =>
              Stored(fs'.target) = messages
       /\ (pc' = "idle" /\ outcome' \in {"updated", "unchanged"}) =>
              NeverShrinks(Stored(fs0.target), Stored(fs'.target))]_vars

\* C20 -- end-to-end backup completeness: against a remote history that grows
\* only by records newer than all it holds, once a sync has returned after
\* the last growth the persisted messages hold every record of the remote
\* history.
C20_BackupCompleteness ==
    settled => \A m \in remote : m \in Range(Stored(fs.target))

\* A sync has returned after adding several records to a snapshot an earlier
\* sync wrote, and the snapshot holds the whole remote history.
C20_Witness ==
    /\ settled
    /\ pc = "idle"
    /\ outcome = "updated"
    /\ Len(Stored(fs0.target)) >= 1
    /\ Len(Stored(fs.target)) >= Len(Stored(fs0.target)) + 2
    /\ Cardinality(remote) = Len(Stored(fs.target))

====
